---- MODULE Spec2Model ----
(***************************************************************************)
(* Model of scripts/log_parser.py: the command-line log analyzer.  One     *)
(* run of main() (or one direct call of analyze_logs_with_ai) is a         *)
(* behaviour; the file system, the environment and the remote completion   *)
(* service are the nondeterministic surroundings.                          *)
(***************************************************************************)
EXTENDS Naturals, Sequences, FiniteSets, TLC

VARIABLES entry, log_file, log_string, quiet, env_key, pc,
          log_content_to_analyze, log_content, api_key, clients, calls,
          request, response, ret, ai_suggestion, exc, stdout, stderr

vars == <<entry, log_file, log_string, quiet, env_key, pc,
          log_content_to_analyze, log_content, api_key, clients, calls,
          request, response, ret, ai_suggestion, exc, stdout, stderr>>

-----------------------------------------------------------------------------
(* Python values.  An Optional[str] is a set of at most one string: None   *)
(* is the empty set and the string s is {s}.  A plain str is a TLA+ string.*)

None == {}

Some(s) == {s}

Val(o) == CHOOSE s \in o : TRUE

\* `not x` restricted to None only: the empty string would count as given.
NotNoneOnly(o) == o = None

\* Python truthiness test `not x` of an Optional[str].
Not(o) == o = None \/ o = Some("")

\* str(x) as print() and f-strings apply it to an Optional[str].
PyStr(o) == IF o = None THEN "None" ELSE Val(o)

Digit(d) == SubSeq("0123456789", d + 1, d + 1)

RECURSIVE IntStr(_)
\* str(n) of a non-negative int, as the f-strings format len() and status.
IntStr(n) == IF n < 10 THEN Digit(n) ELSE IntStr(n \div 10) \o Digit(n % 10)

RECURSIVE Join(_, _)
\* sep.join(parts)
Join(parts, sep) ==
  IF parts = <<>> THEN ""
  ELSE IF Len(parts) = 1 THEN parts[1]
  ELSE parts[1] \o sep \o Join(Tail(parts), sep)

Range(s) == { s[i] : i \in 1..Len(s) }

-----------------------------------------------------------------------------
(* Bounds and program constants.                                           *)

\* Number of lines of the long log file (long enough to pass PreviewLen).
LongLogLines == 30

\* log_content[:500]
PreviewLen == 500

RECURSIVE Repeat(_, _)
Repeat(s, n) == IF n = 0 THEN "" ELSE s \o Repeat(s, n - 1)

LongLog == Repeat("ERROR: step 'deploy' failed\n", LongLogLines)

-----------------------------------------------------------------------------
(* The surroundings: command line, environment, files, remote service.     *)

LogFileArgs == {None, Some(""), Some("missing.log"), Some("locked.log"),
                Some("empty.log"), Some("build.log"), Some("long.log")}

LogStringArgs == {None, Some(""), Some("hello")}

ApiKeys == {None, Some(""), Some("sk-test")}

AnalyzeLogs == {"", "hello", LongLog}

\* open(file_path, 'r') and f.read(): the content, or the exception raised.
ReadFile(path) ==
  CASE path = "build.log"  -> [raised |-> "", text |-> "ERROR: docker build failed"]
    [] path = "long.log"   -> [raised |-> "", text |-> LongLog]
    [] path = "empty.log"  -> [raised |-> "", text |-> ""]
    [] path = "locked.log" -> [raised |-> "PermissionError",
                               text |-> "[Errno 13] Permission denied: 'locked.log'"]
    [] OTHER               -> [raised |-> "FileNotFoundError",
                               text |-> "[Errno 2] No such file or directory: '" \o path \o "'"]

\* Direct base class (__base__) of each exception class the model knows, as
\* Python 3.11 and the openai package define them.  The table is closed: it
\* has no default, and a class outside it is outside the model.
Base(cls) ==
  CASE cls = "AuthenticationError"             -> "APIStatusError"
    [] cls = "RateLimitError"                  -> "APIStatusError"
    [] cls = "InternalServerError"             -> "APIStatusError"
    [] cls = "BadRequestError"                 -> "APIStatusError"
    [] cls = "PermissionDeniedError"           -> "APIStatusError"
    [] cls = "NotFoundError"                   -> "APIStatusError"
    [] cls = "ConflictError"                   -> "APIStatusError"
    [] cls = "UnprocessableEntityError"        -> "APIStatusError"
    [] cls = "APIStatusError"                  -> "APIError"
    [] cls = "APIResponseValidationError"      -> "APIError"
    [] cls = "APITimeoutError"                 -> "APIConnectionError"
    [] cls = "APIConnectionError"              -> "APIError"
    [] cls = "APIError"                        -> "OpenAIError"
    [] cls = "OpenAIError"                     -> "Exception"
    [] cls = "IndexError"                      -> "LookupError"
    [] cls = "KeyError"                        -> "LookupError"
    [] cls = "LookupError"                     -> "Exception"
    [] cls = "ZeroDivisionError"               -> "ArithmeticError"
    [] cls = "OverflowError"                   -> "ArithmeticError"
    [] cls = "FloatingPointError"              -> "ArithmeticError"
    [] cls = "ArithmeticError"                 -> "Exception"
    [] cls = "TimeoutError"                    -> "OSError"
    [] cls = "ConnectionError"                 -> "OSError"
    [] cls = "FileNotFoundError"               -> "OSError"
    [] cls = "PermissionError"                 -> "OSError"
    [] cls = "OSError"                         -> "Exception"
    [] cls = "UnicodeError"                    -> "ValueError"
    [] cls = "ValueError"                      -> "Exception"
    [] cls = "NotImplementedError"             -> "RuntimeError"
    [] cls = "RecursionError"                  -> "RuntimeError"
    [] cls = "RuntimeError"                    -> "Exception"
    [] cls = "ModuleNotFoundError"             -> "ImportError"
    [] cls = "ImportError"                     -> "Exception"
    [] cls = "AttributeError"                  -> "Exception"
    [] cls = "TypeError"                       -> "Exception"
    [] cls = "AssertionError"                  -> "Exception"
    [] cls = "MemoryError"                     -> "Exception"
    [] cls = "NameError"                       -> "Exception"
    [] cls = "StopIteration"                   -> "Exception"
    [] cls = "EOFError"                        -> "Exception"
    [] cls = "Exception"                       -> "BaseException"
    [] cls = "KeyboardInterrupt"               -> "BaseException"
    [] cls = "SystemExit"                      -> "BaseException"
    [] cls = "GeneratorExit"                   -> "BaseException"
    [] cls = "BaseExceptionGroup"              -> "BaseException"
    [] cls = "CancelledError"                  -> "BaseException"
    [] cls = "BaseException"                   -> "object"

RECURSIVE IsInstance(_, _)
\* isinstance(e, cls), the test an `except cls` clause makes.
IsInstance(ecls, cls) ==
  IF ecls = cls THEN TRUE
  ELSE IF ecls = "object" THEN FALSE
  ELSE IsInstance(Base(ecls), cls)

NoResponse == [kind |-> "none", choices |-> <<>>, cls |-> "", has_status |-> FALSE,
               status_code |-> 0, message |-> "", text |-> ""]

Completion(choices) == [NoResponse EXCEPT !.kind = "ok", !.choices = choices]

Failure(cls, has, code, msg) ==
  [NoResponse EXCEPT !.kind = "raise", !.cls = cls, !.has_status = has,
                     !.status_code = code, !.message = msg, !.text = msg]

\* What client.chat.completions.create can do: return a response whose
\* choices carry message contents (None when absent), or raise; the last
\* outcome is the blocking call being interrupted from the keyboard.
RemoteOutcomes ==
  { Completion(<<Some("- Check the Dockerfile")>>),
    Completion(<<Some("X"), Some("Y")>>),
    Completion(<<None>>),
    Completion(<<>>),
    Failure("AuthenticationError", TRUE, 401, "Incorrect API key provided"),
    Failure("RateLimitError", TRUE, 429, "Rate limit reached"),
    Failure("InternalServerError", TRUE, 500, "The server had an error"),
    Failure("APIConnectionError", FALSE, 0, "Connection error."),
    Failure("APITimeoutError", FALSE, 0, "Request timed out."),
    Failure("RuntimeError", FALSE, 0, "boom"),
    Failure("ValueError", FALSE, 0, "bad value"),
    Failure("TimeoutError", FALSE, 0, "timed out"),
    Failure("KeyboardInterrupt", FALSE, 0, "") }

-----------------------------------------------------------------------------
(* Fixed texts of the script.                                              *)

EmptyLogMessage == "No specific suggestions: Log content was empty."

SkippedMessage == "AI Analysis skipped: OpenAI API key not available."

AuthMessage == "AI Analysis failed: Authentication error. Check your API key and organization ID."

RateLimitMessage == "AI Analysis failed: Rate limit exceeded. Please try again later or check your usage."

APIErrorMessage(e) ==
  "AI Analysis failed: An API error occurred. Status Code: " \o IntStr(e.status_code)
    \o ". Message: " \o e.message

UnexpectedMessage(text) == "Could not get AI suggestion due to an unexpected error: " \o text

NoContentError == "Error: No log content available to analyze."

system_prompt == "You are an expert CI/CD Pipeline Troubleshooting Assistant. Your goal is to analyze the provided logs, identify potential errors or causes of failure, and suggest concise, actionable troubleshooting steps.\n\nFocus on:\n- Identifying specific error messages.\n- Correlating errors with common root causes for technologies like Docker, Kubernetes, Terraform, GitHub Actions, and general application build/deployment issues.\n- Providing clear, step-by-step suggestions for remediation.\n- If possible, suggest commands to run or specific files to check.\n- If the log is unclear or too short, state that more information might be needed but still try to offer general advice based on any discernible information.\n- Keep your response focused on the technical problem and its solution.\n- Please format your suggestions using Markdown. Use bullet points for actionable steps.\n"

\* The Markdown fence of the user prompt.  The lexer admits no backquote in a
\* string, so each of its three backquotes is written as an apostrophe.
Fence == "'''"

user_prompt_content(log) ==
  "Here are the logs from a failed CI/CD pipeline step:\n\n" \o Fence \o "\n" \o log
    \o "\n" \o Fence \o "\n\nPlease analyze these logs and provide troubleshooting suggestions."

prompt_messages(log) ==
  << [role |-> "system", content |-> system_prompt],
     [role |-> "user", content |-> user_prompt_content(log)] >>

NoRequest == [model |-> "", messages |-> <<>>, temperature |-> ""]

simulated_errors ==
  << << <<"timestamp", "2023-10-27T10:00:00Z">>, <<"level", "ERROR">>,
        <<"message", "Failed to connect to database">>, <<"service", "auth-service">> >>,
     << <<"timestamp", "2023-10-27T10:00:05Z">>, <<"level", "ERROR">>,
        <<"message", "NullPointerException in UserServlet">>, <<"service", "user-service">> >>,
     << <<"timestamp", "2023-10-27T10:01:00Z">>, <<"level", "WARN">>,
        <<"message", "High latency detected for payment-gateway">>,
        <<"service", "checkout-service">> >> >>

JsonString(s) == "\"" \o s \o "\""

JsonObject(obj) ==
  "  {\n"
    \o Join([i \in 1..Len(obj) |->
               "    " \o JsonString(obj[i][1]) \o ": " \o JsonString(obj[i][2])], ",\n")
    \o "\n  }"

\* json.dumps(list_of_dicts, indent=2) for string-valued, escape-free dicts.
JsonDumps(list) ==
  "[\n" \o Join([i \in 1..Len(list) |-> JsonObject(list[i])], ",\n") \o "\n]"

-----------------------------------------------------------------------------
(* Output routing.                                                         *)

\* A printer that ignores the quiet flag and always uses print.
printer_always_print(q) == "stdout"

\* printer = eprint if quiet else print: the stream narration goes to.
printer(q) == IF q THEN "stderr" ELSE "stdout"

\* The lines a stream receives when `lines` are written to stream `dest`.
To(stream, dest, lines) == IF dest = stream THEN lines ELSE <<>>

\* The run appends `out` to standard output and `err` to standard error.
Emit(out, err) ==
  /\ stdout' = stdout \o out
  /\ stderr' = stderr \o err

\* printer(line) for each of `lines`, with printer chosen by the quiet flag.
Narrate(q, lines) ==
  Emit(To("stdout", printer(q), lines), To("stderr", printer(q), lines))

-----------------------------------------------------------------------------
(* parse_log_file and the input resolution of main.                        *)

\* A parse_log_file that returns the text of the error instead of "".
parse_log_file_error_text(file_path, q) ==
  LET r == ReadFile(file_path)
  IN  [ret |-> r.text, lines |-> <<"Attempting to read log file: " \o file_path>>]

\* parse_log_file(file_path, quiet): the returned text and the narration.
parse_log_file(file_path, q) ==
  LET r == ReadFile(file_path)
      attempt == "Attempting to read log file: " \o file_path
  IN  IF r.raised = ""
      THEN [ret |-> r.text,
            lines |-> <<attempt, "Successfully read " \o IntStr(Len(r.text))
                                   \o " characters from " \o file_path>>]
      ELSE IF r.raised = "FileNotFoundError"
      THEN [ret |-> "", lines |-> <<attempt, "Error: Log file not found at " \o file_path>>]
      ELSE [ret |-> "",
            lines |-> <<attempt, "Error reading log file " \o file_path \o ": " \o r.text>>]

\* eprint(line) if not args.quiet else None
UnlessQuiet(q, lines) == IF q THEN <<>> ELSE lines

\* Lines 123-141 of main: the resolved text and what each stream receives.
ResolveInput(lf, ls, q) ==
  IF ~Not(lf)
  THEN LET p == parse_log_file(Val(lf), q)
       IN  [text |-> p.ret,
            out |-> To("stdout", printer(q), p.lines),
            err |-> UnlessQuiet(q, <<"Log file argument provided: " \o Val(lf)>>)
                      \o To("stderr", printer(q), p.lines)]
  ELSE IF ~Not(ls)
  THEN [text |-> Val(ls), out |-> <<>>,
        err |-> UnlessQuiet(q, <<"Log string argument provided.">>)]
  ELSE LET sample == JsonDumps(simulated_errors)
       IN  [text |-> sample, out |-> <<>>,
            err |-> UnlessQuiet(q,
              <<"No log file or log string provided. Simulating some default error log for demonstration.",
                "\nSimulated Log Data for AI Analysis:", sample>>)]

\* A final output step that prints the suggestion whatever the quiet flag.
FinalOutputAlwaysStdout(suggestion, q) ==
  [out |-> <<PyStr(suggestion)>>,
   err |-> UnlessQuiet(q, <<"\n--- Final Output ---", "AI-Generated Suggestion:">>)]

\* Lines 154-160 of main: where the returned suggestion is written.
FinalOutput(suggestion, q) ==
  IF q THEN [out |-> <<PyStr(suggestion)>>, err |-> <<>>]
       ELSE [out |-> <<>>,
             err |-> <<"\n--- Final Output ---", "AI-Generated Suggestion:",
                       PyStr(suggestion)>>]

-----------------------------------------------------------------------------
(* analyze_logs_with_ai.                                                   *)

\* The two early-return checks in the opposite order.
GuardKeyFirst(lc, key) ==
  IF Not(key) THEN "no_key" ELSE IF lc = "" THEN "empty" ELSE "go"

\* Lines 39-45: `if not log_content` first, then `if not api_key`.
Guard(lc, key) ==
  IF lc = "" THEN "empty" ELSE IF Not(key) THEN "no_key" ELSE "go"

\* log_content[:500] + "...\n" if len(log_content) > 500 else log_content
Preview(lc) ==
  IF Len(lc) > PreviewLen THEN SubSeq(lc, 1, PreviewLen) \o "...\n" ELSE lc

Banner == "\n--- AI Log Analysis ---"

IndexError == Failure("IndexError", FALSE, 0, "list index out of range")

\* The exception the try block raises for a given outcome of the remote
\* call, if any: the injected failure, or the IndexError of choices[0].
Raised(r) ==
  IF r.kind = "raise" THEN r
  ELSE IF r.kind = "ok" /\ r.choices = <<>> THEN IndexError
  ELSE NoResponse

\* The except clause that catches e: the first, in source order, whose
\* class e is an instance of.
Handler(e) ==
  IF IsInstance(e.cls, "AuthenticationError") THEN "auth"
  ELSE IF IsInstance(e.cls, "RateLimitError") THEN "rate_limit"
  ELSE IF IsInstance(e.cls, "APIError") THEN "api"
  ELSE IF IsInstance(e.cls, "Exception") THEN "other"
  ELSE "uncaught"

-----------------------------------------------------------------------------
(* Initial states: a run of the script through main(), or a direct call of *)
(* analyze_logs_with_ai(log_content, api_key, quiet).                      *)

Init ==
  /\ entry \in {"main", "analyze"}
  /\ quiet \in BOOLEAN
  /\ IF entry = "main"
     THEN /\ log_file \in LogFileArgs
          /\ log_string \in LogStringArgs
          /\ env_key \in ApiKeys
          /\ log_content = ""
          /\ api_key = None
          /\ pc = "main"
     ELSE /\ log_file = None
          /\ log_string = None
          /\ env_key = None
          /\ log_content \in AnalyzeLogs
          /\ api_key \in ApiKeys
          /\ pc = "analyze"
  /\ log_content_to_analyze = ""
  /\ clients = 0
  /\ calls = 0
  /\ request = NoRequest
  /\ response = NoResponse
  /\ ret = None
  /\ ai_suggestion = None
  /\ exc = ""
  /\ stdout = <<>>
  /\ stderr = <<>>

-----------------------------------------------------------------------------
(* main                                                                    *)

\* Lines 123-141: resolve the log text from file, string or sample.
MainResolve ==
  /\ pc = "main"
  /\ LET r == ResolveInput(log_file, log_string, quiet)
     IN  /\ log_content_to_analyze' = r.text
         /\ Emit(r.out, r.err)
  /\ pc' = "main_check"
  /\ UNCHANGED <<entry, log_file, log_string, quiet, env_key, log_content, api_key,
                 clients, calls, request, response, ret, ai_suggestion, exc>>

\* Lines 143-146: nothing to analyze; report and return.
MainNoContent ==
  /\ pc = "main_check"
  /\ log_content_to_analyze = ""
  /\ IF quiet THEN Emit(<<NoContentError>>, <<>>)
              ELSE Emit(<<>>, <<"No log content available to analyze. Exiting.">>)
  /\ pc' = "done"
  /\ UNCHANGED <<entry, log_file, log_string, quiet, env_key, log_content_to_analyze,
                 log_content, api_key, clients, calls, request, response, ret,
                 ai_suggestion, exc>>

\* Lines 148-152: read the credential and call analyze_logs_with_ai.
MainCallAnalyze ==
  /\ pc = "main_check"
  /\ log_content_to_analyze # ""
  /\ Emit(<<>>, IF Not(env_key) /\ ~quiet
                THEN <<"Warning: OPENAI_API_KEY environment variable not set. AI analysis will be skipped or will fail.">>
                ELSE <<>>)
  /\ log_content' = log_content_to_analyze
  /\ api_key' = env_key
  /\ pc' = "analyze"
  /\ UNCHANGED <<entry, log_file, log_string, quiet, env_key, log_content_to_analyze,
                 clients, calls, request, response, ret, ai_suggestion, exc>>

\* Lines 152-160: bind the returned suggestion and write the final output.
MainOutput ==
  /\ entry = "main"
  /\ pc = "returned"
  /\ ai_suggestion' = ret
  /\ LET f == FinalOutput(ret, quiet) IN Emit(f.out, f.err)
  /\ pc' = "done"
  /\ UNCHANGED <<entry, log_file, log_string, quiet, env_key, log_content_to_analyze,
                 log_content, api_key, clients, calls, request, response, ret, exc>>

-----------------------------------------------------------------------------
(* analyze_logs_with_ai                                                    *)

\* Variables no step of analyze_logs_with_ai touches.
CallerState == <<entry, log_file, log_string, quiet, env_key, log_content_to_analyze,
                 log_content, api_key, ai_suggestion>>

\* Lines 36-41: empty log content.
AnalyzeEmpty ==
  /\ pc = "analyze"
  /\ Guard(log_content, api_key) = "empty"
  /\ Narrate(quiet, <<Banner, "No log content provided for AI analysis.">>)
  /\ ret' = Some(EmptyLogMessage)
  /\ pc' = "returned"
  /\ UNCHANGED <<CallerState, clients, calls, request, response, exc>>

\* Lines 36-45: no credential.
AnalyzeNoKey ==
  /\ pc = "analyze"
  /\ Guard(log_content, api_key) = "no_key"
  /\ Narrate(quiet, <<Banner, "Error: OPENAI_API_KEY not provided. Cannot perform AI analysis.">>)
  /\ ret' = Some(SkippedMessage)
  /\ pc' = "returned"
  /\ UNCHANGED <<CallerState, clients, calls, request, response, exc>>

\* Lines 36-48: both checks pass; echo the start of the log.
AnalyzeProceed ==
  /\ pc = "analyze"
  /\ Guard(log_content, api_key) = "go"
  /\ Narrate(quiet, <<Banner, "Log content received by AI analyzer (first 500 chars):",
                      Preview(log_content)>>)
  /\ pc' = "construct"
  /\ UNCHANGED <<CallerState, clients, calls, request, response, ret, exc>>

\* Line 50: client = OpenAI(api_key=api_key) succeeds.
ConstructClient ==
  /\ pc = "construct"
  /\ clients' = clients + 1
  /\ pc' = "request"
  /\ UNCHANGED <<CallerState, calls, request, response, ret, exc, stdout, stderr>>

\* Line 50: the constructor raises; the statement is outside the try block,
\* so the exception leaves analyze_logs_with_ai and main.
ConstructClientRaises ==
  /\ pc = "construct"
  /\ clients' = clients + 1
  /\ exc' = "OpenAIError"
  /\ pc' = "crashed"
  /\ UNCHANGED <<CallerState, calls, request, response, ret, stdout, stderr>>

\* Lines 52-77: build the prompt and make the one blocking remote call,
\* which returns a response or raises.
SendRequest ==
  /\ pc = "request"
  /\ Narrate(quiet, <<"Sending request to OpenAI API with model: gpt-3.5-turbo">>)
  /\ request' = [model |-> "gpt-3.5-turbo", messages |-> prompt_messages(log_content),
                 temperature |-> "0.3"]
  /\ calls' = calls + 1
  /\ \E o \in RemoteOutcomes : response' = o
  /\ pc' = "response"
  /\ UNCHANGED <<CallerState, clients, ret, exc>>

\* Lines 79-82: the first choice's message content is the suggestion.
ReturnSuggestion ==
  /\ pc = "response"
  /\ Raised(response) = NoResponse
  /\ LET suggestion == response.choices[1]
     IN  /\ Narrate(quiet, <<"AI Suggestion (from OpenAI API):", PyStr(suggestion)>>)
         /\ ret' = suggestion
  /\ pc' = "returned"
  /\ UNCHANGED <<CallerState, clients, calls, request, response, exc>>

\* Lines 83-85.
HandleAuthenticationError ==
  /\ pc = "response"
  /\ Raised(response) # NoResponse
  /\ Handler(Raised(response)) = "auth"
  /\ Narrate(quiet, <<"OpenAI API Authentication Error: " \o Raised(response).text>>)
  /\ ret' = Some(AuthMessage)
  /\ pc' = "returned"
  /\ UNCHANGED <<CallerState, clients, calls, request, response, exc>>

\* Lines 86-88.
HandleRateLimitError ==
  /\ pc = "response"
  /\ Raised(response) # NoResponse
  /\ Handler(Raised(response)) = "rate_limit"
  /\ Narrate(quiet, <<"OpenAI API Rate Limit Exceeded: " \o Raised(response).text>>)
  /\ ret' = Some(RateLimitMessage)
  /\ pc' = "returned"
  /\ UNCHANGED <<CallerState, clients, calls, request, response, exc>>

\* Lines 89-91, for an error object that has status_code and message.
HandleAPIError ==
  /\ pc = "response"
  /\ Raised(response) # NoResponse
  /\ Handler(Raised(response)) = "api"
  /\ Raised(response).has_status
  /\ Narrate(quiet, <<"OpenAI API Error: " \o Raised(response).text>>)
  /\ ret' = Some(APIErrorMessage(Raised(response)))
  /\ pc' = "returned"
  /\ UNCHANGED <<CallerState, clients, calls, request, response, exc>>

\* Lines 89-91, for an error object without a status_code attribute: the
\* f-string of line 91 raises AttributeError inside the handler, which no
\* later except clause of the same try statement catches.
HandleAPIErrorRaises ==
  /\ pc = "response"
  /\ Raised(response) # NoResponse
  /\ Handler(Raised(response)) = "api"
  /\ ~Raised(response).has_status
  /\ Narrate(quiet, <<"OpenAI API Error: " \o Raised(response).text>>)
  /\ exc' = "AttributeError"
  /\ pc' = "crashed"
  /\ UNCHANGED <<CallerState, clients, calls, request, response, ret>>

\* Lines 92-94.
HandleException ==
  /\ pc = "response"
  /\ Raised(response) # NoResponse
  /\ Handler(Raised(response)) = "other"
  /\ Narrate(quiet, <<"An unexpected error occurred during AI analysis: "
                        \o Raised(response).text>>)
  /\ ret' = Some(UnexpectedMessage(Raised(response).text))
  /\ pc' = "returned"
  /\ UNCHANGED <<CallerState, clients, calls, request, response, exc>>

\* Lines 83-92, for an exception that is not an instance of Exception: no
\* except clause matches and it leaves analyze_logs_with_ai and main.
PropagateUncaught ==
  /\ pc = "response"
  /\ Raised(response) # NoResponse
  /\ Handler(Raised(response)) = "uncaught"
  /\ exc' = Raised(response).cls
  /\ pc' = "crashed"
  /\ UNCHANGED <<CallerState, clients, calls, request, response, ret, stdout, stderr>>

-----------------------------------------------------------------------------

Next ==
  \/ MainResolve
  \/ MainNoContent
  \/ MainCallAnalyze
  \/ MainOutput
  \/ AnalyzeEmpty
  \/ AnalyzeNoKey
  \/ AnalyzeProceed
  \/ ConstructClient
  \/ ConstructClientRaises
  \/ SendRequest
  \/ ReturnSuggestion
  \/ HandleAuthenticationError
  \/ HandleRateLimitError
  \/ HandleAPIError
  \/ HandleAPIErrorRaises
  \/ HandleException
  \/ PropagateUncaught

Spec == Init /\ [][Next]_vars

\* The status the shell sees once the run is over: 0 when main returns; when
\* an exception reaches the top level the interpreter prints a traceback and
\* exits with 1, except that an uncaught KeyboardInterrupt makes it end the
\* process by SIGINT (return code -2, shell status 128 + 2).
\* (The traceback, written to standard error, is not part of the script's own
\* output and is left out of stderr.)
ExitStatus ==
  IF pc # "crashed" THEN 0
  ELSE IF exc = "KeyboardInterrupt" THEN 130
  ELSE 1

TypeOK ==
  /\ pc \in {"main", "main_check", "analyze", "construct", "request", "response",
             "returned", "done", "crashed"}
  /\ calls \in 0..1
  /\ clients \in 0..1
  /\ JsonDumps(simulated_errors) # ""
  /\ Len(JsonDumps(simulated_errors)) = 473

-----------------------------------------------------------------------------
(* Properties.                                                             *)

\* The remote call did not fail but was interrupted: what it raised is not an
\* instance of Exception (KeyboardInterrupt), which the script rightly lets
\* through and which none of the claims counts among the failures.
Interrupted == response.kind = "raise" /\ ~IsInstance(response.cls, "Exception")

\* The credential is missing: None or the empty string.
MissingCredential == api_key \in {None, Some("")}

\* --log-file names a path whose open() or read() fails.
FileUnavailable ==
  /\ log_file \notin {None, Some("")}
  /\ ReadFile(Val(log_file)).raised # ""

\* C1: in QUIET mode no narration ever reaches standard output, and a run of
\* main() that returns has written exactly one line there: the value returned
\* by analyze_logs_with_ai when log content was resolved, the fixed error
\* sentence when it was not.
C1_QuietSingleStdoutLine ==
  quiet =>
    /\ pc # "done" => stdout = <<>>
    /\ (entry = "main" /\ pc = "done") =>
         stdout = << IF log_content_to_analyze = "" THEN NoContentError ELSE PyStr(ret) >>

C1_Witness ==
  /\ entry = "main" /\ quiet /\ pc = "done"
  /\ ret = Some("- Check the Dockerfile")
  /\ stdout = <<"- Check the Dockerfile">>
  /\ Len(stderr) > 3

\* C2 as stated: every run of main() that resolved non-empty log content and
\* returned has written the final suggestion to standard output, in VERBOSE
\* mode as well as in QUIET mode.
C2_SuggestionAlwaysOnStdout ==
  (entry = "main" /\ pc = "done" /\ log_content_to_analyze # "") =>
    PyStr(ai_suggestion) \in Range(stdout)

\* C2 amended: the final output step of main writes the value returned by
\* analyze_logs_with_ai to standard output exactly in QUIET mode; in VERBOSE
\* mode it writes two header lines and the value to standard error and
\* nothing to standard output.
C2_FinalOutputFollowsQuiet ==
  [][ (pc = "returned" /\ pc' = "done") =>
        /\ ai_suggestion' = ret
        /\ IF quiet
           THEN /\ stdout' = Append(stdout, PyStr(ret))
                /\ stderr' = stderr
           ELSE /\ stdout' = stdout
                /\ stderr' = stderr \o <<"\n--- Final Output ---",
                                         "AI-Generated Suggestion:", PyStr(ret)>> ]_vars

C2_Witness ==
  /\ entry = "main" /\ ~quiet /\ pc = "done"
  /\ log_content_to_analyze = "hello"
  /\ ai_suggestion = Some(SkippedMessage)
  /\ SkippedMessage \notin Range(stdout)
  /\ stderr[Len(stderr)] = SkippedMessage

\* C3: a call of analyze_logs_with_ai with non-empty log text and a missing
\* credential (None or empty) returns exactly the fixed "skipped" message,
\* and the client is never constructed nor the remote service invoked.
C3_MissingCredentialSkips ==
  /\ MissingCredential => (clients = 0 /\ calls = 0)
  /\ (log_content # "" /\ MissingCredential /\ pc # "analyze") =>
       /\ pc \in {"returned", "done"}
       /\ ret = Some(SkippedMessage)

C3_Witness ==
  /\ pc = "returned"
  /\ log_content = "hello"
  /\ api_key = Some("")
  /\ ret = Some(SkippedMessage)
  /\ clients = 0 /\ calls = 0

\* C4: a call of analyze_logs_with_ai with empty log text returns exactly the
\* fixed "log content was empty" message whatever the credential and the
\* quiet flag, without constructing the client or invoking the remote
\* service: the empty-text check comes before the credential check.
C4_EmptyLogSkips ==
  (entry = "analyze" /\ log_content = "") =>
    /\ clients = 0 /\ calls = 0
    /\ pc # "analyze" => (pc = "returned" /\ ret = Some(EmptyLogMessage))

C4_Witness ==
  /\ entry = "analyze"
  /\ log_content = ""
  /\ api_key = None
  /\ pc = "returned"
  /\ ret = Some(EmptyLogMessage)

\* The message C5 attributes to a failure, by the failure's class.
ClaimedMessage(e) ==
  IF IsInstance(e.cls, "AuthenticationError") THEN AuthMessage
  ELSE IF IsInstance(e.cls, "RateLimitError") THEN RateLimitMessage
  ELSE IF IsInstance(e.cls, "APIError") THEN APIErrorMessage(e)
  ELSE UnexpectedMessage(e.text)

\* C5: once a failure of the remote call (an interruption apart) has been
\* handled, the value returned
\* is the message of the failure's class: authentication, rate limit, any
\* other API failure (with its status code and text), or unexpected.
C5_FailureClassDecidesMessage ==
  (response.kind = "raise" /\ ~Interrupted /\ pc \in {"returned", "done", "crashed"}) =>
    ret = Some(ClaimedMessage(response))

\* C6: no failure (an interruption apart) propagates out of a run of main():
\* no exception is left
\* uncaught and the exit status is 0.
C6_NothingPropagates ==
  (entry = "main" /\ ~Interrupted) => (exc = "" /\ pc # "crashed" /\ ExitStatus = 0)

\* C7: when the --log-file path cannot be opened or read, parse_log_file
\* returns "" without raising and the run is the empty-content case: the
\* remote service is never invoked, analyze_logs_with_ai returns nothing, and
\* in QUIET mode the fixed error sentence is all of standard output; also
\* when --log-string carries non-empty text.
C7_UnreadableFileIsEmptyContent ==
  (entry = "main" /\ FileUnavailable /\ pc # "main") =>
    /\ log_content_to_analyze = ""
    /\ pc \in {"main_check", "done"}
    /\ exc = ""
    /\ clients = 0 /\ calls = 0
    /\ ret = None /\ ai_suggestion = None
    /\ quiet => stdout = IF pc = "done" THEN <<NoContentError>> ELSE <<>>

C7_Witness ==
  /\ entry = "main" /\ quiet /\ pc = "done"
  /\ log_file = Some("missing.log")
  /\ log_string = Some("hello")
  /\ stdout = <<NoContentError>>
  /\ calls = 0

\* The text C8's three-way rule assigns to the arguments.
ClaimedLogText ==
  IF log_file # None
  THEN LET r == ReadFile(Val(log_file)) IN IF r.raised = "" THEN r.text ELSE ""
  ELSE IF log_string # None THEN Val(log_string)
  ELSE JsonDumps(simulated_errors)

\* C8: the text main() resolves is the file's content when --log-file is
\* given, else the --log-string value verbatim when that is given (an empty
\* one included), else, with neither given, the three-entry sample.
C8_ThreeWayResolution ==
  (entry = "main" /\ pc # "main") => log_content_to_analyze = ClaimedLogText

\* C9: the value analyze_logs_with_ai returns is never None.
C9_SuggestionNeverNone ==
  pc = "returned" => ret # None

\* C10: a run of main() (not interrupted) invokes the remote service at most
\* once, only with
\* non-empty log text and a credential, and whatever the outcome of the call
\* the run goes on, without another request, to write the resulting string
\* and finish.
C10_SingleTerminalCall ==
  (entry = "main" /\ ~Interrupted) =>
    /\ calls <= 1
    /\ calls = 1 =>
         /\ log_content # "" /\ ~MissingCredential
         /\ pc \in {"response", "returned", "done"}
         /\ pc = "done" =>
              /\ ai_suggestion = ret
              /\ PyStr(ret) \in (Range(stdout) \cup Range(stderr))

====
